---- MODULE Spec2Model ----
(***************************************************************************)
(* Model of the numeric pipeline of src/frontend/app.jsx: the Panel Tidier *)
(* (tidyPanelJS, tidyPanel, parseNumber), the Log Aggregator               *)
(* (computeAvgLogPsByYear, groupMeanByYear, safeLog, medianLog), the       *)
(* Series Aligner (App.series / makeAligned, Dashboard.averagePlot), the   *)
(* Smoother (movingAverage), the Scenario Projector (App.scenario), the    *)
(* two loaders with the controls of the page (App.loadAll, the sliders,    *)
(* reset, useBubbleData.loadData) and the overlay reader (parseCsv).       *)
(*                                                                         *)
(* JavaScript values are records [t, s, num, den]:                         *)
(*   t        "undefined", "null", "string", "number", "NaN", "-Infinity", *)
(*            "ln", "halfln", "lnp" or "fixed4"                            *)
(*   s        the characters of a string, a sequence of 1-char strings;    *)
(*            for "fixed4" the values whose mean is rounded                *)
(*   num/den  a number as a reduced fraction (den > 0); for "ln" and       *)
(*            "halfln" the argument of the logarithm (see MathLog)         *)
(*   fac      for "lnp" only: the argument of the logarithm as a product   *)
(*            of prime powers (see MathLogProduct)                         *)
(* Array indices are the 0-based indices of the source.                    *)
(***************************************************************************)
EXTENDS Integers, Sequences, FiniteSets, TLC

VARIABLES
    \* Panel Tidier (tidyPanelJS / tidyPanel), one loop iteration per step
    impl, rows, years, i, records, anchors, pc,
    \* cell parsing: the cells of one block at one year column and their record
    parse,
    \* Log Aggregator, mean mode: the tidy records and the series computed from them
    agg,
    \* Log Aggregator, median mode: the values given to medianLog and its result
    median,
    \* Series Aligner: three year series and their aligned data
    align,
    \* Smoother: the values and window given to movingAverage and its result
    mavg,
    \* App / useBubbleData: the load's position, the component state and the memos
    app,
    \* overlay upload: the text given to parseCsv and its result
    csv

tidyVars  == <<impl, rows, years, i, records, anchors, pc>>
vars      == <<tidyVars, parse, agg, median, align, mavg, app, csv>>

\* the value of a component's variable while another component is checked
Idle == [pc |-> "idle"]

(***************************************************************************)
(* JavaScript values                                                       *)
(***************************************************************************)
Undefined == [t |-> "undefined", s |-> <<>>, num |-> 0, den |-> 1]
Null      == [t |-> "null",      s |-> <<>>, num |-> 0, den |-> 1]
NaN       == [t |-> "NaN",       s |-> <<>>, num |-> 0, den |-> 1]
Str(cs)   == [t |-> "string",    s |-> cs,   num |-> 0, den |-> 1]

Abs(n) == IF n < 0 THEN -n ELSE n

RECURSIVE Gcd(_, _)
Gcd(a, b) == IF b = 0 THEN a ELSE Gcd(b, a % b)

\* the number n/d (d # 0), as a reduced fraction with a positive denominator
Rat(n, d) ==
    LET g  == Gcd(Abs(n), Abs(d))
        sg == IF d < 0 THEN -1 ELSE 1
    IN  [t |-> "number", s |-> <<>>, num |-> sg * (n \div g), den |-> sg * (d \div g)]

Num(n) == Rat(n, 1)

IsNullish(v) == v.t \in {"undefined", "null"}      \* v == null
\* ToBoolean: undefined, null, NaN, 0 and "" are falsy
Falsy(v) ==
    \/ v.t \in {"undefined", "null", "NaN"}
    \/ v.t = "number" /\ v.num = 0
    \/ v.t = "string" /\ v.s = <<>>
Truthy(v) == ~Falsy(v)
\* a || b
Or(a, b) == IF Truthy(a) THEN a ELSE b

(***************************************************************************)
(* Strings                                                                 *)
(***************************************************************************)
Digits == <<"0", "1", "2", "3", "4", "5", "6", "7", "8", "9">>
IsDigit(c) == \E k \in 1..10 : Digits[k] = c
DigitVal(c) == (CHOOSE k \in 1..10 : Digits[k] = c) - 1
IsSpace(c) == c \in {" ", "\t", "\n", "\r"}

RECURSIVE NatToString(_)
NatToString(n) ==
    IF n < 10 THEN <<Digits[n + 1]>>
    ELSE NatToString(n \div 10) \o <<Digits[(n % 10) + 1]>>

\* String(value) of lines 99, 733, 749, 760
String(v) ==
    CASE v.t = "string"    -> v.s
      [] v.t = "number"    -> IF v.num < 0 THEN <<"-">> \o NatToString(-v.num)
                              ELSE NatToString(v.num)
      [] v.t = "NaN"       -> <<"N", "a", "N">>
      [] v.t = "null"      -> <<"n", "u", "l", "l">>
      [] OTHER             -> <<"u", "n", "d", "e", "f", "i", "n", "e", "d">>

\* s.replace(/c/g, '')
RECURSIVE RemoveAll(_, _)
RemoveAll(s, c) ==
    IF s = <<>> THEN <<>>
    ELSE IF Head(s) = c THEN RemoveAll(Tail(s), c)
    ELSE <<Head(s)>> \o RemoveAll(Tail(s), c)

RECURSIVE TrimStart(_)
TrimStart(s) == IF s # <<>> /\ IsSpace(Head(s)) THEN TrimStart(Tail(s)) ELSE s
RECURSIVE TrimEnd(_)
TrimEnd(s) ==
    IF s # <<>> /\ IsSpace(s[Len(s)]) THEN TrimEnd(SubSeq(s, 1, Len(s) - 1)) ELSE s
\* s.trim()
Trim(s) == TrimEnd(TrimStart(s))

UpperCase == <<"A", "B", "C", "D", "E", "F", "G", "H", "I", "J", "K", "L", "M",
               "N", "O", "P", "Q", "R", "S", "T", "U", "V", "W", "X", "Y", "Z">>
LowerCase == <<"a", "b", "c", "d", "e", "f", "g", "h", "i", "j", "k", "l", "m",
               "n", "o", "p", "q", "r", "s", "t", "u", "v", "w", "x", "y", "z">>
LowerChar(c) ==
    IF \E k \in 1..26 : UpperCase[k] = c
    THEN LowerCase[CHOOSE k \in 1..26 : UpperCase[k] = c]
    ELSE c
\* s.toLowerCase()
ToLowerCase(s) == [k \in 1..Len(s) |-> LowerChar(s[k])]

RECURSIVE DigitsValue(_)
DigitsValue(s) ==
    IF s = <<>> THEN 0 ELSE 10 * DigitsValue(SubSeq(s, 1, Len(s) - 1)) + DigitVal(s[Len(s)])
AllDigits(s) == s # <<>> /\ \A k \in 1..Len(s) : IsDigit(s[k])

\* Number(string): white space is trimmed, the empty string is 0, an optionally
\* signed run of decimal digits is its value, anything else is NaN.  (The cell
\* alphabet has no ".", "e", "x" or "I", so no other numeric literal occurs.)
StringToNumber(s) ==
    LET c == Trim(s) IN
    IF c = <<>> THEN Num(0)
    ELSE IF AllDigits(c) THEN Num(DigitsValue(c))
    ELSE IF Head(c) \in {"-", "+"} /\ AllDigits(Tail(c))
         THEN Num((IF Head(c) = "-" THEN -1 ELSE 1) * DigitsValue(Tail(c)))
    ELSE NaN

\* Number(value)
Number(v) ==
    CASE v.t = "string"    -> StringToNumber(v.s)
      [] v.t = "number"    -> v
      [] v.t = "null"      -> Num(0)
      [] OTHER             -> NaN

\* Number.isFinite(v)
IsFinite(v) == v.t = "number"

(***************************************************************************)
(* Cell parsing                                                            *)
(***************************************************************************)
NA == <<"n", "/", "a">>

\* parseNumber, lines 731-737
parseNumber(value) ==
    IF value.t \in {"undefined", "null"} THEN Null
    ELSE LET clean == Trim(RemoveAll(RemoveAll(String(value), ","), "\"")) IN
         IF clean = <<>> \/ ToLowerCase(clean) = NA THEN Null
         ELSE LET num == Number(Str(clean)) IN
              IF IsFinite(num) THEN num ELSE Null

\* Number(row[col]) || null, lines 103-105
numberOrNull(value) == Or(Number(value), Null)

(***************************************************************************)
(* Tables                                                                  *)
(***************************************************************************)
COMPANY    == Str(<<"C", "o", "m", "p", "a", "n", "y">>)
METRIC     == Str(<<"M", "e", "t", "r", "i", "c">>)
MARKET_CAP == Str(<<"M", "a", "r", "k", "e", "t", " ", "C", "a", "p", " ", "(", "$", "b", "n", ")">>)
REVENUE    == Str(<<"R", "e", "v", "e", "n", "u", "e", " ", "(", "$", "b", "n", ")">>)
VAL_REV    == Str(<<"V", "a", "l", "u", "a", "t", "i", "o", "n", "/", "R", "e", "v", "e", "n", "u", "e">>)
EMPTY      == Str(<<>>)

\* arr[idx] with a negative index counting from the end, as in Python
arrayGet_wrap(arr, idx) ==
    IF idx \in 0..(Len(arr) - 1) THEN arr[idx + 1]
    ELSE IF idx < 0 /\ -idx <= Len(arr) THEN arr[Len(arr) + idx + 1]
    ELSE Undefined

\* arr[idx] of an array of values: undefined outside 0..length-1 (in particular
\* at the index -1 that indexOf returns)
arrayGet(arr, idx) == IF idx \in 0..(Len(arr) - 1) THEN arr[idx + 1] ELSE Undefined

\* the row index clamped to the last row of the table
rowOrEmpty_clamp(rs, idx) ==
    IF idx \in 0..(Len(rs) - 1) THEN rs[idx + 1]
    ELSE IF rs # <<>> /\ idx >= Len(rs) THEN rs[Len(rs)] ELSE <<>>

\* rows[idx] || [] of lines 756-757
rowOrEmpty(rs, idx) == IF idx \in 0..(Len(rs) - 1) THEN rs[idx + 1] ELSE <<>>

\* header.indexOf(x): first index with a strictly equal element, else -1
indexOf(arr, x) ==
    IF \E k \in 1..Len(arr) : arr[k] = x
    THEN (CHOOSE k \in 1..Len(arr) : arr[k] = x /\ \A j \in 1..(k - 1) : arr[j] # x) - 1
    ELSE -1

\* A row object is [keys, vals]: obj[key] is the value of the last key equal to
\* key, undefined when the object has no such key; {} has no keys.
EmptyObject == [keys |-> <<>>, vals |-> <<>>]
objectGet(obj, key) ==
    IF \E k \in 1..Len(obj.keys) : obj.keys[k] = key
    THEN obj.vals[CHOOSE k \in 1..Len(obj.keys) :
                     obj.keys[k] = key /\ \A j \in (k + 1)..Len(obj.keys) : obj.keys[j] # key]
    ELSE Undefined

\* the row objects of loadCsvAsObjects, lines 56-65: keyed by the trimmed header
\* cells, a missing cell is ""
loadCsvAsObjects(table) ==
    IF table = <<>> THEN <<>>
    ELSE LET headers == [k \in 1..Len(table[1]) |-> Str(Trim(table[1][k].s))] IN
         [r \in 1..(Len(table) - 1) |->
            [keys |-> headers,
             vals |-> [k \in 1..Len(headers) |->
                         IF k <= Len(table[r + 1]) THEN Str(Trim(table[r + 1][k].s))
                         ELSE EMPTY]]]

\* block.find((r) => r["Metric"] === label) || {}, lines 94-96
RECURSIVE findMetric(_, _)
findMetric(block, label) ==
    IF block = <<>> THEN EmptyObject
    ELSE IF objectGet(Head(block), METRIC) = label THEN Head(block)
    ELSE findMetric(Tail(block), label)

\* rows.slice(from, to)
slice(arr, from, to) ==
    LET hi == IF to < Len(arr) THEN to ELSE Len(arr) IN
    IF from >= hi THEN <<>> ELSE SubSeq(arr, from + 1, hi)

(***************************************************************************)
(* Panel Tidier                                                            *)
(***************************************************************************)
TidyRecord(company, year, mc, rev, vr) ==
    [Company |-> company, Year |-> year, MarketCap |-> mc, Revenue |-> rev, ValRev |-> vr]

\* the records one block pushes in tidyPanelJS, lines 93-107
tidyPanelJSBlock(objs, ys, idx) ==
    LET company == objectGet(objs[idx + 1], COMPANY)
        block   == slice(objs, idx, idx + 3)
        mcRow   == findMetric(block, MARKET_CAP)
        revRow  == findMetric(block, REVENUE)
        vrRow   == findMetric(block, VAL_REV)
    IN  [k \in 1..Len(ys) |->
            LET col == Str(String(Num(ys[k]))) IN
            TidyRecord(company, ys[k],
                       numberOrNull(objectGet(mcRow, col)),
                       numberOrNull(objectGet(revRow, col)),
                       numberOrNull(objectGet(vrRow, col)))]

\* a block that pushes records only for the years found in the header
tidyPanelBlock_knownYears(rs, ys, idx) ==
    LET known == SelectSeq(ys, LAMBDA y : indexOf(rs[1], Str(String(Num(y)))) >= 0)
        mcRow == rs[idx + 1]
    IN  [k \in 1..Len(known) |->
            LET colIndex == indexOf(rs[1], Str(String(Num(known[k])))) IN
            TidyRecord(arrayGet(mcRow, 0), known[k],
                       parseNumber(arrayGet(mcRow, colIndex)),
                       parseNumber(arrayGet(rowOrEmpty(rs, idx + 1), colIndex)),
                       parseNumber(arrayGet(rowOrEmpty(rs, idx + 2), colIndex)))]

\* the records one block pushes in tidyPanel, lines 749 and 755-765
tidyPanelBlock(rs, ys, idx) ==
    LET header  == rs[1]
        company == arrayGet(rs[idx + 1], 0)
        mcRow   == rs[idx + 1]
        revRow  == rowOrEmpty(rs, idx + 1)
        vrRow   == rowOrEmpty(rs, idx + 2)
    IN  [k \in 1..Len(ys) |->
            LET colIndex == indexOf(header, Str(String(Num(ys[k])))) IN
            TidyRecord(Or(arrayGet(mcRow, 0), company), ys[k],
                       parseNumber(arrayGet(mcRow, colIndex)),
                       parseNumber(arrayGet(revRow, colIndex)),
                       parseNumber(arrayGet(vrRow, colIndex)))]

\* a blank row that consumes a whole block
skipRow_block(idx) == idx + 3

\* the cursor after a row without a company: i += 1 (line 89), continue (line 754)
skipRow(idx) == idx + 1
\* the cursor after a block: i += 3 (line 109), i += 2 and the loop's i += 1 (767, 752)
skipBlock(idx) == idx + 3

\* tidyPanelJS(rows, years), lines 81-113, from cursor idx on
RECURSIVE tidyPanelJSFrom(_, _, _)
tidyPanelJSFrom(objs, ys, idx) ==
    IF ~(idx < Len(objs)) THEN <<>>
    ELSE IF Falsy(objectGet(objs[idx + 1], COMPANY)) THEN tidyPanelJSFrom(objs, ys, skipRow(idx))
    ELSE tidyPanelJSBlock(objs, ys, idx) \o tidyPanelJSFrom(objs, ys, skipBlock(idx))
tidyPanelJS(objs, ys) == tidyPanelJSFrom(objs, ys, 0)

\* tidyPanel(rows, years), lines 746-771, from cursor idx on
RECURSIVE tidyPanelFrom(_, _, _)
tidyPanelFrom(rs, ys, idx) ==
    IF ~(idx < Len(rs)) THEN <<>>
    ELSE IF Falsy(arrayGet(rowOrEmpty(rs, idx), 0)) THEN tidyPanelFrom(rs, ys, skipRow(idx))
    ELSE tidyPanelBlock(rs, ys, idx) \o tidyPanelFrom(rs, ys, skipBlock(idx))
tidyPanel(rs, ys) == IF Len(rs) = 0 THEN <<>> ELSE tidyPanelFrom(rs, ys, 1)

\* the rows tidyPanelJS is called with (line 450)
objects == loadCsvAsObjects(rows)

\* rows.length as the running implementation sees it
rowCount == IF impl = "tidyPanelJS" THEN Len(objects) ELSE Len(rows)
\* const company = row["Company"] (line 87), rows[i]?.[0] (line 753)
companyAt(idx) ==
    IF impl = "tidyPanelJS" THEN objectGet(objects[idx + 1], COMPANY)
    ELSE arrayGet(rowOrEmpty(rows, idx), 0)

tidyPanelJS_Skip ==
    /\ impl = "tidyPanelJS" /\ pc = "loop"
    /\ i < Len(objects)
    /\ Falsy(companyAt(i))
    /\ i' = skipRow(i)
    /\ UNCHANGED <<impl, rows, years, records, anchors, pc, parse, agg, median, align, mavg, app, csv>>

tidyPanelJS_Block ==
    /\ impl = "tidyPanelJS" /\ pc = "loop"
    /\ i < Len(objects)
    /\ Truthy(companyAt(i))
    /\ records' = records \o tidyPanelJSBlock(objects, years, i)
    /\ anchors' = Append(anchors, i)
    /\ i' = skipBlock(i)
    /\ UNCHANGED <<impl, rows, years, pc, parse, agg, median, align, mavg, app, csv>>

tidyPanelJS_Return ==
    /\ impl = "tidyPanelJS" /\ pc = "loop"
    /\ ~(i < Len(objects))
    /\ pc' = "done"
    /\ UNCHANGED <<impl, rows, years, i, records, anchors, parse, agg, median, align, mavg, app, csv>>

tidyPanel_Skip ==
    /\ impl = "tidyPanel" /\ pc = "loop"
    /\ Len(rows) # 0 /\ i < Len(rows)
    /\ Falsy(companyAt(i))
    /\ i' = skipRow(i)
    /\ UNCHANGED <<impl, rows, years, records, anchors, pc, parse, agg, median, align, mavg, app, csv>>

tidyPanel_Block ==
    /\ impl = "tidyPanel" /\ pc = "loop"
    /\ Len(rows) # 0 /\ i < Len(rows)
    /\ Truthy(companyAt(i))
    /\ records' = records \o tidyPanelBlock(rows, years, i)
    /\ anchors' = Append(anchors, i)
    /\ i' = skipBlock(i)
    /\ UNCHANGED <<impl, rows, years, pc, parse, agg, median, align, mavg, app, csv>>

\* if (!rows.length) return [] (line 747), or the loop ends (line 752)
tidyPanel_Return ==
    /\ impl = "tidyPanel" /\ pc = "loop"
    /\ (Len(rows) = 0 \/ ~(i < Len(rows)))
    /\ pc' = "done"
    /\ UNCHANGED <<impl, rows, years, i, records, anchors, parse, agg, median, align, mavg, app, csv>>

(***************************************************************************)
(* Inputs of the Panel Tidier                                              *)
(***************************************************************************)
MaxRows == 4

SeqsUpTo(S, n) == UNION {[1..k -> S] : k \in 0..n}

Header == <<COMPANY, METRIC, Str(<<"1", "9", "9", "6">>), Str(<<"1", "9", "9", "7">>)>>
RowKinds ==
    { <<Str(<<"A">>), MARKET_CAP, Str(<<"1", "0">>), Str(<<"2", "0">>)>>,
      <<EMPTY, REVENUE, Str(<<"2">>), Str(<<"n", "/", "a">>)>>,
      <<EMPTY, VAL_REV, Str(<<"5">>), Str(<<"0">>)>>,
      <<Str(<<"B">>), MARKET_CAP, Str(<<"7">>)>>,
      <<EMPTY>>,
      <<>> }
Tables == {<<>>} \cup {<<Header>> \o body : body \in SeqsUpTo(RowKinds, MaxRows)}
YearLists == {<<>>, <<1996, 1997>>, <<1996, 1998>>, <<1996, 1997, 1998>>}

TidyInit ==
    /\ impl \in {"tidyPanelJS", "tidyPanel"}
    /\ rows \in Tables
    /\ years \in YearLists
    /\ i = (IF impl = "tidyPanelJS" THEN 0 ELSE 1)
    /\ records = <<>>
    /\ anchors = <<>>
    /\ pc = "loop"
    /\ parse = Idle /\ agg = Idle /\ median = Idle /\ align = Idle /\ mavg = Idle /\ app = Idle /\ csv = Idle

TidyNext ==
    \/ tidyPanelJS_Skip \/ tidyPanelJS_Block \/ tidyPanelJS_Return
    \/ tidyPanel_Skip \/ tidyPanel_Block \/ tidyPanel_Return

SpecTidy == TidyInit /\ [][TidyNext]_vars

(***************************************************************************)
(* Properties of the Panel Tidier                                          *)
(***************************************************************************)
\* the record of the b-th consumed block for the k-th target year
BlockRecord(b, k) == records[(b - 1) * Len(years) + k]
\* the first cursor value of the running implementation
firstRow == IF impl = "tidyPanelJS" THEN 0 ELSE 1
\* the target year has a column in the header
InHeader(y) == rows # <<>> /\ \E c \in 1..Len(rows[1]) : rows[1][c] = Str(NatToString(y))
AllNull(r) == r.MarketCap = Null /\ r.Revenue = Null /\ r.ValRev = Null

\* C1: each company block the tidier consumes yields exactly |years| records, one
\* per target year in the order of the list and carrying the block's company, so
\* the number of records is (number of blocks) x |years|; when the scan is over,
\* every row with a company lies in a consumed block.
C1_RecordsPerBlock ==
    /\ Len(records) = Len(anchors) * Len(years)
    /\ \A b \in 1..Len(anchors) : \A k \in 1..Len(years) :
          /\ BlockRecord(b, k).Year = years[k]
          /\ BlockRecord(b, k).Company = companyAt(anchors[b])
    /\ pc = "done" =>
          \A idx \in firstRow..(rowCount - 1) :
              Truthy(companyAt(idx)) =>
                  \E b \in 1..Len(anchors) : idx \in anchors[b]..(anchors[b] + 2)

C1_Witness ==
    /\ pc = "done" /\ Len(anchors) = 2 /\ Len(years) = 3 /\ Len(records) = 6
    /\ anchors[2] = anchors[1] + 3

\* C2: a row whose company cell is empty or absent emits no record and moves the
\* cursor by one row; the cursor moves by three rows only from a row with a
\* non-empty company cell; no record carries an empty company.
C2_BlankRowsSkipped ==
    [][ (pc = "loop" /\ i < rowCount) =>
            /\ Falsy(companyAt(i)) => (i' = i + 1 /\ records' = records)
            /\ Truthy(companyAt(i)) => i' = i + 3
            /\ i' = i + 3 => Truthy(companyAt(i))
            /\ \A k \in 1..Len(records') : Truthy(records'[k].Company) ]_vars

C2_Witness ==
    /\ pc = "done" /\ Len(anchors) = 1
    /\ anchors[1] = firstRow + 2
    /\ companyAt(firstRow) = EMPTY /\ companyAt(firstRow + 1) = Undefined
    /\ Len(records) = Len(years) /\ Len(years) = 2

\* the table ends inside the b-th block
Truncated(b) == anchors[b] + 2 >= rowCount
\* the b-th block has no row for the metric: tidyPanelJS finds a block's rows by
\* their Metric label (lines 94-96), tidyPanel by their position (lines 756-757)
MetricRowMissing(b, label, offset) ==
    IF impl = "tidyPanelJS"
    THEN \A idx \in anchors[b]..(anchors[b] + 2) :
            idx < rowCount => objectGet(objects[idx + 1], METRIC) # label
    ELSE anchors[b] + offset >= rowCount

\* C3: a block cut short by the end of the table still yields its records for
\* every target year, with the field of each missing metric row null.
C3_TruncatedBlock ==
    \A b \in 1..Len(anchors) :
        Truncated(b) =>
            /\ Len(records) >= b * Len(years)
            /\ \A k \in 1..Len(years) :
                  /\ BlockRecord(b, k).Year = years[k]
                  /\ MetricRowMissing(b, REVENUE, 1) => BlockRecord(b, k).Revenue = Null
                  /\ MetricRowMissing(b, VAL_REV, 2) => BlockRecord(b, k).ValRev = Null

C3_Witness ==
    /\ pc = "done" /\ Len(anchors) = 2 /\ Len(years) = 2
    /\ anchors[2] + 1 = rowCount
    /\ BlockRecord(2, 1).MarketCap # Null
    /\ BlockRecord(2, 1).Revenue = Null /\ BlockRecord(2, 2).ValRev = Null

\* C4, as claimed: no record is emitted for a target year that is not in the header.
C4_NoRecordForUnknownYear ==
    \A k \in 1..Len(records) : InHeader(records[k].Year)

\* C4, amended: for a target year that is not in the header every block still
\* yields one record, whose three fields are null; the records of the recognized
\* years are the ones the tidier yields for the recognized years alone.
C4_UnknownYearAllNull ==
    /\ \A b \in 1..Len(anchors) : \A k \in 1..Len(years) :
          ~InHeader(years[k]) => (BlockRecord(b, k).Year = years[k] /\ AllNull(BlockRecord(b, k)))
    /\ pc = "done" =>
          SelectSeq(records, LAMBDA r : InHeader(r.Year))
            = (IF impl = "tidyPanelJS"
               THEN tidyPanelJS(objects, SelectSeq(years, InHeader))
               ELSE tidyPanel(rows, SelectSeq(years, InHeader)))

C4_Witness ==
    /\ pc = "done" /\ Len(anchors) >= 1 /\ years = <<1996, 1998>>
    /\ ~AllNull(BlockRecord(1, 1)) /\ AllNull(BlockRecord(1, 2))

(***************************************************************************)
(* Cell parsing of one record: the three cells of a block at one column    *)
(***************************************************************************)
MaxCellLen == 3

CellChars == {"0", "1", "5", ",", "\"", " ", "n", "/", "a", "N", "A", "-"}
\* the cell under test: every text over CellChars, a missing cell, a numeric cell
Cells ==
    {Str(cs) : cs \in SeqsUpTo(CellChars, MaxCellLen)}
        \cup {Undefined, Null, Num(0), Num(15), Num(-5)}
\* the other two cells of the record
OtherCells == {Undefined, Str(<<"5">>), Str(<<"a">>)}

ParseInit ==
    /\ parse \in {[pc |-> "cells", impl |-> "none", cells |-> <<c, o1, o2>>, out |-> <<>>] :
                      c \in Cells, o1 \in OtherCells, o2 \in OtherCells}
    /\ impl = "none" /\ rows = <<>> /\ years = <<>> /\ i = 0
    /\ records = <<>> /\ anchors = <<>> /\ pc = "idle"
    /\ agg = Idle /\ median = Idle /\ align = Idle /\ mavg = Idle /\ app = Idle /\ csv = Idle

\* the fields of records.push({...}) in tidyPanelJS, lines 100-106; the cell under
\* test is taken in turn as the Market Cap, Revenue and Valuation/Revenue cell
tidyPanelJS_Record ==
    /\ parse.pc = "cells"
    /\ \E p \in 1..3 :
          LET c == [k \in 1..3 |-> parse.cells[((k + p) % 3) + 1]] IN
          parse' = [pc |-> "done", impl |-> "tidyPanelJS", cells |-> c,
                    out |-> [MarketCap |-> numberOrNull(c[1]),
                             Revenue   |-> numberOrNull(c[2]),
                             ValRev    |-> numberOrNull(c[3])]]
    /\ UNCHANGED <<tidyVars, agg, median, align, mavg, app, csv>>

\* the fields of records.push({...}) in tidyPanel, lines 761-764
tidyPanel_Record ==
    /\ parse.pc = "cells"
    /\ \E p \in 1..3 :
          LET c == [k \in 1..3 |-> parse.cells[((k + p) % 3) + 1]] IN
          parse' = [pc |-> "done", impl |-> "tidyPanel", cells |-> c,
                    out |-> [MarketCap |-> parseNumber(c[1]),
                             Revenue   |-> parseNumber(c[2]),
                             ValRev    |-> parseNumber(c[3])]]
    /\ UNCHANGED <<tidyVars, agg, median, align, mavg, app, csv>>

ParseNext == tidyPanelJS_Record \/ tidyPanel_Record

SpecParse == ParseInit /\ [][ParseNext]_vars

\* The value the contract gives a cell: quotes and commas are dropped and the
\* rest is trimmed; an optionally signed run of digits is that number, and a
\* numeric cell is itself; everything else ("n/a", blank, missing, other text) is null.
ClaimedCell(v) ==
    IF v.t = "number" THEN v
    ELSE IF v.t # "string" THEN Null
    ELSE LET body   == Trim(SelectSeq(v.s, LAMBDA ch : ch \notin {",", "\""}))
             signed == body # <<>> /\ Head(body) \in {"-", "+"}
             digits == IF signed THEN Tail(body) ELSE body
         IN  IF digits # <<>> /\ \A k \in 1..Len(digits) : IsDigit(digits[k])
             THEN Num((IF signed /\ Head(body) = "-" THEN -1 ELSE 1) * DigitsValue(digits))
             ELSE Null

\* C5, as claimed: every cell is parsed to its numeric value (zero included,
\* quotes and thousands separators tolerated) or to null, each field on its own.
C5_CellParsing ==
    parse.pc = "done" =>
        /\ parse.out.MarketCap = ClaimedCell(parse.cells[1])
        /\ parse.out.Revenue = ClaimedCell(parse.cells[2])
        /\ parse.out.ValRev = ClaimedCell(parse.cells[3])

\* C5 restricted to parseNumber (tidyPanel), where it holds
C5_CellParsing_parseNumber ==
    (parse.pc = "done" /\ parse.impl = "tidyPanel") => C5_CellParsing

(***************************************************************************)
(* Numbers of the Log Aggregator                                           *)
(*                                                                         *)
(* Math.log(x) of a positive fraction x is kept exact: [t |-> "ln"] with   *)
(* num/den = x stands for the real number ln(x), and [t |-> "halfln"] for  *)
(* ln(x)/2, the mean of two logarithms whose arguments have the product x. *)
(* ln(1) is the number 0, and ln(x)/2 with x a square is ln(sqrt(x)), so   *)
(* that equal reals are equal values.                                      *)
(***************************************************************************)
NegInfinity == [t |-> "-Infinity", s |-> <<>>, num |-> 0, den |-> 1]

\* a + b and a / n of numbers
Add(a, b) == Rat(a.num * b.den + b.num * a.den, a.den * b.den)
Div(a, n) == Rat(a.num, a.den * n)
\* a > 0 of a value (false for null, undefined and NaN) and a - b < 0 of numbers
Gt0(a) == a.t = "number" /\ a.num > 0
Less(a, b) == a.num * b.den < b.num * a.den

Ln(x) == IF x.num = x.den THEN Num(0)
         ELSE [t |-> "ln", s |-> <<>>, num |-> x.num, den |-> x.den]
\* Math.log(x)
MathLog(x) ==
    IF x.t # "number" \/ x.num < 0 THEN NaN
    ELSE IF x.num = 0 THEN NegInfinity
    ELSE Ln(x)

\* the argument x of a logarithm ln(x) (1 for the number 0)
Arg(v) == IF v.t = "ln" THEN Rat(v.num, v.den) ELSE Num(1)
IsSquare(n) == \E r \in 0..n : r * r = n
Sqrt(n) == CHOOSE r \in 0..n : r * r = n
\* (a + b) / 2 of two logarithms
HalfSum(a, b) ==
    LET x == Rat(Arg(a).num * Arg(b).num, Arg(a).den * Arg(b).den) IN
    IF IsSquare(x.num) /\ IsSquare(x.den) THEN Ln(Rat(Sqrt(x.num), Sqrt(x.den)))
    ELSE [t |-> "halfln", s |-> <<>>, num |-> x.num, den |-> x.den]
\* a - b < 0 of two logarithms: ln is increasing
LogLess(a, b) == Less(Arg(a), Arg(b))

\* arr.reduce((s, v) => s + v, 0)
RECURSIVE reduceSum(_)
reduceSum(arr) ==
    IF arr = <<>> THEN Num(0) ELSE Add(reduceSum(SubSeq(arr, 1, Len(arr) - 1)), arr[Len(arr)])

\* Array.prototype.sort with the comparator (a, b) => a - b, as the stable
\* insertion of each element into the ascending sequence of the ones before it;
\* over numbers (years) ...
RECURSIVE insertNumber(_, _)
insertNumber(s, x) ==
    IF s = <<>> THEN <<x>>
    ELSE IF x < Head(s) THEN <<x>> \o s
    ELSE <<Head(s)>> \o insertNumber(Tail(s), x)
RECURSIVE sortNumbers(_)
sortNumbers(arr) ==
    IF arr = <<>> THEN <<>>
    ELSE insertNumber(sortNumbers(SubSeq(arr, 1, Len(arr) - 1)), arr[Len(arr)])
\* ... and over logarithms
RECURSIVE insertLog(_, _)
insertLog(s, x) ==
    IF s = <<>> THEN <<x>>
    ELSE IF LogLess(x, Head(s)) THEN <<x>> \o s
    ELSE <<Head(s)>> \o insertLog(Tail(s), x)
RECURSIVE sortLogs(_)
sortLogs(arr) ==
    IF arr = <<>> THEN <<>>
    ELSE insertLog(sortLogs(SubSeq(arr, 1, Len(arr) - 1)), arr[Len(arr)])

\* keys left in the order the Map got them, not sorted
sortYears_unsorted(ys) == ys

\* Array.from(byYear.keys()).sort((a, b) => a - b), lines 125 and 786
sortYears(ys) == sortNumbers(ys)

(***************************************************************************)
(* Log Aggregator, mean mode                                               *)
(***************************************************************************)
\* a filter that drops only the missing values
validValRev_notNull(v) == v.t = "number"

\* r.ValRev && r.ValRev > 0 (line 119); !(!row.ValRev || row.ValRev <= 0) (line 780)
validValRev(v) == Truthy(v) /\ Gt0(v)

\* the keys of the Map in insertion order: the years of the valid records, each at
\* its first occurrence
RECURSIVE mapKeys(_)
mapKeys(recs) ==
    IF recs = <<>> THEN <<>>
    ELSE LET before == mapKeys(SubSeq(recs, 1, Len(recs) - 1))
             r      == recs[Len(recs)]
         IN  IF validValRev(r.ValRev) /\ \A k \in 1..Len(before) : before[k] # r.Year
             THEN Append(before, r.Year) ELSE before
\* byYear.get(y): the valid values of the year, in record order
mapGet(recs, y) ==
    LET kept == SelectSeq(recs, LAMBDA r : r.Year = y /\ validValRev(r.ValRev)) IN
    [k \in 1..Len(kept) |-> kept[k].ValRev]

\* computeAvgLogPsByYear(records), lines 116-133
computeAvgLogPsByYear(recs) ==
    LET ys == sortYears(mapKeys(recs)) IN
    [years  |-> ys,
     values |-> [k \in 1..Len(ys) |->
                    LET arr == mapGet(recs, ys[k])
                        avg == Div(reduceSum(arr), Len(arr))
                    IN  MathLog(avg)]]

\* groupMeanByYear(data), lines 777-793
groupMeanByYear(data) ==
    LET labels == sortYears(mapKeys(data)) IN
    [labels |-> labels,
     values |-> [k \in 1..Len(labels) |->
                    LET nums == mapGet(data, labels[k])
                        avg  == Div(reduceSum(nums), Len(nums))
                    IN  MathLog(avg)]]

MaxRecords == 3

AggYears   == {2020, 2021, 2022}
AggValRevs == {Null, Num(0), Num(-5), Num(10), Num(20)}
AggRecords == {TidyRecord(Str(<<"A">>), y, Null, Null, v) : y \in AggYears, v \in AggValRevs}

AggInit ==
    /\ agg \in {[pc |-> "records", impl |-> "none", records |-> rs,
                 out |-> [years |-> <<>>, values |-> <<>>]] :
                    rs \in SeqsUpTo(AggRecords, MaxRecords)}
    /\ impl = "none" /\ rows = <<>> /\ years = <<>> /\ i = 0
    /\ records = <<>> /\ anchors = <<>> /\ pc = "idle"
    /\ parse = Idle /\ median = Idle /\ align = Idle /\ mavg = Idle /\ app = Idle /\ csv = Idle

computeAvgLogPsByYear_Call ==
    /\ agg.pc = "records"
    /\ agg' = [agg EXCEPT !.pc = "done", !.impl = "computeAvgLogPsByYear",
                          !.out = computeAvgLogPsByYear(agg.records)]
    /\ UNCHANGED <<tidyVars, parse, median, align, mavg, app, csv>>

groupMeanByYear_Call ==
    /\ agg.pc = "records"
    /\ agg' = [agg EXCEPT !.pc = "done", !.impl = "groupMeanByYear",
                          !.out = [years  |-> groupMeanByYear(agg.records).labels,
                                   values |-> groupMeanByYear(agg.records).values]]
    /\ UNCHANGED <<tidyVars, parse, median, align, mavg, app, csv>>

AggNext == computeAvgLogPsByYear_Call \/ groupMeanByYear_Call

SpecAgg == AggInit /\ [][AggNext]_vars

\* the records of year y whose valRev is a number greater than zero
ValidAt(y) ==
    {j \in 1..Len(agg.records) :
        /\ agg.records[j].Year = y
        /\ agg.records[j].ValRev.t = "number"
        /\ agg.records[j].ValRev.num > 0}
RECURSIVE SumValRev(_)
SumValRev(J) ==
    IF J = {} THEN 0
    ELSE LET j == CHOOSE x \in J : TRUE IN agg.records[j].ValRev.num + SumValRev(J \ {j})

\* C6: the value of each output year is the natural log of the arithmetic mean of
\* the year's valRev values that are non-null and > 0: exp(value) x count = sum.
C6_LogOfMean ==
    agg.pc = "done" =>
        \A k \in 1..Len(agg.out.years) :
            LET v == agg.out.values[k]
                J == ValidAt(agg.out.years[k])
            IN  /\ v.t \in {"ln", "number"}
                /\ v.t = "number" => v = Num(0)
                /\ Arg(v).num * Cardinality(J) = Arg(v).den * SumValRev(J)

C6_Witness ==
    /\ agg.pc = "done"
    /\ [k \in 1..Len(agg.records) |-> agg.records[k].ValRev] = <<Num(0), Num(-5), Num(10)>>
    /\ \A k \in 1..Len(agg.records) : agg.records[k].Year = 2020
    /\ agg.out = [years |-> <<2020>>, values |-> <<Ln(Num(10))>>]

\* C7: the output years are strictly increasing and are exactly the years with at
\* least one valid valRev; values has the length of years and no null entry.
C7_YearSeries ==
    agg.pc = "done" =>
        /\ \A k \in 1..(Len(agg.out.years) - 1) : agg.out.years[k] < agg.out.years[k + 1]
        /\ {agg.out.years[k] : k \in 1..Len(agg.out.years)}
              = {y \in AggYears : ValidAt(y) # {}}
        /\ Len(agg.out.values) = Len(agg.out.years)
        /\ \A k \in 1..Len(agg.out.values) : agg.out.values[k].t \in {"ln", "number"}

C7_Witness ==
    /\ agg.pc = "done"
    /\ [k \in 1..Len(agg.records) |-> agg.records[k].Year] = <<2022, 2021, 2020>>
    /\ ValidAt(2021) = {}
    /\ agg.out.years = <<2020, 2022>>
    /\ agg.out.values[1] # agg.out.values[2]

(***************************************************************************)
(* Log Aggregator, median mode                                             *)
(***************************************************************************)
\* safeLog(series), lines 773-775
safeLog(series) ==
    LET kept == SelectSeq(series, Gt0) IN [k \in 1..Len(kept) |-> MathLog(kept[k])]

\* the upper middle element for an even count, without the average
medianLog_upper(series) ==
    LET sorted == sortLogs(safeLog(series)) IN
    IF Len(sorted) = 0 THEN Null ELSE arrayGet(sorted, Len(sorted) \div 2)

\* medianLog(series), lines 795-804
medianLog(series) ==
    LET filtered == safeLog(series) IN
    IF Len(filtered) = 0 THEN Null
    ELSE LET sorted == sortLogs(filtered)
             mid    == Len(sorted) \div 2
         IN  IF Len(sorted) % 2 = 0
             THEN HalfSum(arrayGet(sorted, mid - 1), arrayGet(sorted, mid))
             ELSE arrayGet(sorted, mid)

MaxSeries == 4

MedianValues == {Null, Num(0), Num(-5), Num(1), Num(2), Num(8)}

MedianInit ==
    /\ median \in {[pc |-> "series", given |-> xs, series |-> xs, out |-> Null] :
                      xs \in SeqsUpTo(MedianValues, MaxSeries)}
    /\ impl = "none" /\ rows = <<>> /\ years = <<>> /\ i = 0
    /\ records = <<>> /\ anchors = <<>> /\ pc = "idle"
    /\ parse = Idle /\ agg = Idle /\ align = Idle /\ mavg = Idle /\ app = Idle /\ csv = Idle

\* medianLog works on the array filter returns and sorts a copy of it (line 798):
\* the caller's array is left as it is
medianLog_Call ==
    /\ median.pc = "series"
    /\ median' = [median EXCEPT !.pc = "done", !.out = medianLog(median.series)]
    /\ UNCHANGED <<tidyVars, parse, agg, align, mavg, app, csv>>

MedianNext == medianLog_Call

SpecMedian == MedianInit /\ [][MedianNext]_vars

\* the positions of the values medianLog keeps: numbers greater than zero
Kept == {j \in 1..Len(median.given) : median.given[j].t = "number" /\ median.given[j].num > 0}
Below(x) == Cardinality({j \in Kept : Less(median.given[j], x)})
Above(x) == Cardinality({j \in Kept : Less(x, median.given[j])})
\* x is the value at rank r (1-based) of the kept values in ascending order
AtRank(x, r) == Below(x) < r /\ Cardinality(Kept) - Above(x) >= r

\* C8: medianLog drops the null and the non-positive values, takes the natural log
\* of the others and returns the sample median of the logs: the middle log for an
\* odd count, the mean of the two middle logs for an even count (null when no
\* value is left); the given sequence is not reordered.
C8_MedianOfLogs ==
    median.pc = "done" =>
        LET n == Cardinality(Kept) IN
        /\ median.series = median.given
        /\ n = 0 => median.out = Null
        /\ (n > 0 /\ n % 2 = 1) =>
              \E j \in Kept :
                  /\ AtRank(median.given[j], (n + 1) \div 2)
                  /\ median.out = Ln(median.given[j])
        /\ (n > 0 /\ n % 2 = 0) =>
              \E j, l \in Kept :
                  /\ AtRank(median.given[j], n \div 2)
                  /\ AtRank(median.given[l], (n \div 2) + 1)
                  /\ median.out = HalfSum(Ln(median.given[j]), Ln(median.given[l]))

C8_Witness ==
    /\ median.pc = "done"
    /\ median.given = <<Num(8), Null, Num(1), Num(-5)>>
    /\ median.out = [t |-> "halfln", s |-> <<>>, num |-> 8, den |-> 1]

(***************************************************************************)
(* Series Aligner                                                          *)
(***************************************************************************)
\* Array.from(new Set(arr)): the elements at their first occurrence
RECURSIVE unique(_)
unique(arr) ==
    IF arr = <<>> THEN <<>>
    ELSE LET before == unique(SubSeq(arr, 1, Len(arr) - 1)) IN
         IF \E k \in 1..Len(before) : before[k] = arr[Len(arr)] THEN before
         ELSE Append(before, arr[Len(arr)])

\* new Map(years.map((y, i) => [y, values[i]])).has(y) and .get(y): the value of
\* the last entry with the key (line 476)
mapHas(ys, y) == \E k \in 1..Len(ys) : ys[k] = y
mapLast(ys, values, y) ==
    values[CHOOSE k \in 1..Len(ys) : ys[k] = y /\ \A j \in (k + 1)..Len(ys) : ys[j] # y]

\* a gap filled with the number zero
makeAligned_zero(allYears, ys, values) ==
    [k \in 1..Len(allYears) |->
        IF mapHas(ys, allYears[k]) THEN mapLast(ys, values, allYears[k]) ELSE Num(0)]

\* makeAligned(years, values) of App.series, lines 475-478
makeAligned(allYears, ys, values) ==
    [k \in 1..Len(allYears) |->
        IF mapHas(ys, allYears[k]) THEN mapLast(ys, values, allYears[k]) ELSE Null]

\* the aligned series of App.series, lines 472-485
alignSeries(dot, big, niche) ==
    LET allYears == sortYears(unique(dot.years \o big.years \o niche.years)) IN
    [years   |-> allYears,
     dotcom  |-> makeAligned(allYears, dot.years, dot.values),
     bigTech |-> makeAligned(allYears, big.years, big.values),
     pureAI  |-> makeAligned(allYears, niche.years, niche.values)]

\* labels and datasets[..].data of Dashboard.averagePlot, lines 889-895
averagePlot(tracks) ==
    LET labels == sortYears(unique(tracks[1].labels \o tracks[2].labels \o tracks[3].labels)) IN
    [labels   |-> labels,
     datasets |-> [n \in 1..3 |->
                     [k \in 1..Len(labels) |->
                         LET idx == indexOf(tracks[n].labels, labels[k]) IN
                         IF idx >= 0 THEN arrayGet(tracks[n].values, idx) ELSE Null]]]

MaxSeriesLen == 2

AlignYears  == {2020, 2021, 2022}
AlignValues == {Ln(Num(2)), Ln(Num(3))}
\* the series the Log Aggregator can return: ascending distinct years, a value each
AscendingYears ==
    {s \in SeqsUpTo(AlignYears, MaxSeriesLen) : \A k \in 1..(Len(s) - 1) : s[k] < s[k + 1]}
YearSeries ==
    UNION {{[years |-> ys, values |-> vs] : vs \in [1..Len(ys) -> AlignValues]} :
              ys \in AscendingYears}

AlignInit ==
    /\ align \in {[pc |-> "series", impl |-> "none", in |-> <<a, b, c>>,
                   out |-> [years |-> <<>>, data |-> <<>>]] :
                      a \in YearSeries, b \in YearSeries, c \in YearSeries}
    /\ impl = "none" /\ rows = <<>> /\ years = <<>> /\ i = 0
    /\ records = <<>> /\ anchors = <<>> /\ pc = "idle"
    /\ parse = Idle /\ agg = Idle /\ median = Idle /\ mavg = Idle /\ app = Idle /\ csv = Idle

series_Align ==
    /\ align.pc = "series"
    /\ LET r == alignSeries(align.in[1], align.in[2], align.in[3]) IN
       align' = [align EXCEPT !.pc = "done", !.impl = "App.series",
                              !.out = [years |-> r.years,
                                       data  |-> <<r.dotcom, r.bigTech, r.pureAI>>]]
    /\ UNCHANGED <<tidyVars, parse, agg, median, mavg, app, csv>>

averagePlot_Align ==
    /\ align.pc = "series"
    /\ LET r == averagePlot([n \in 1..3 |-> [labels |-> align.in[n].years,
                                            values |-> align.in[n].values]]) IN
       align' = [align EXCEPT !.pc = "done", !.impl = "Dashboard.averagePlot",
                              !.out = [years |-> r.labels, data |-> r.datasets]]
    /\ UNCHANGED <<tidyVars, parse, agg, median, mavg, app, csv>>

AlignNext == series_Align \/ averagePlot_Align

SpecAlign == AlignInit /\ [][AlignNext]_vars

\* C9: the axis is the ascending duplicate-free union of the input years; every
\* aligned sequence has the axis length and holds, at each axis year, the series'
\* own value for that year or null when the series has no such year.
C9_Aligned ==
    align.pc = "done" =>
        LET axis == align.out.years IN
        /\ \A p \in 1..(Len(axis) - 1) : axis[p] < axis[p + 1]
        /\ {axis[p] : p \in 1..Len(axis)}
              = UNION {{align.in[n].years[k] : k \in 1..Len(align.in[n].years)} : n \in 1..3}
        /\ \A n \in 1..3 :
              /\ Len(align.out.data[n]) = Len(axis)
              /\ \A k \in 1..Len(align.in[n].years) :
                    \E p \in 1..Len(axis) :
                        /\ axis[p] = align.in[n].years[k]
                        /\ align.out.data[n][p] = align.in[n].values[k]
              /\ \A p \in 1..Len(axis) :
                    (\A k \in 1..Len(align.in[n].years) : align.in[n].years[k] # axis[p])
                        => align.out.data[n][p] = Null

C9_Witness ==
    /\ align.pc = "done"
    /\ align.in[1].years = <<2020, 2021>> /\ align.in[2].years = <<2021, 2022>>
    /\ align.in[3].years = <<>>
    /\ align.in[1].values = <<Ln(Num(2)), Ln(Num(3))>>
    /\ align.in[2].values = <<Ln(Num(3)), Ln(Num(2))>>
    /\ align.out.years = <<2020, 2021, 2022>>
    /\ align.out.data[1] = <<Ln(Num(2)), Ln(Num(3)), Null>>
    /\ align.out.data[2] = <<Null, Ln(Num(3)), Ln(Num(2))>>
    /\ align.out.data[3] = <<Null, Null, Null>>

(***************************************************************************)
(* Smoother                                                                *)
(***************************************************************************)
Max(a, b) == IF a > b THEN a ELSE b
Min(a, b) == IF a < b THEN a ELSE b
\* Math.floor(window / 2) and Math.ceil(window / 2) of a whole window
FloorHalf(w) == w \div 2
CeilHalf(w)  == (w + 1) \div 2

\* Number(avg.toFixed(4)): the multiple of 1/10000 nearest to avg, the one farther
\* from zero when two are as near
toFixed4(x) ==
    LET n == (2 * Abs(x.num) * 10000 + x.den) \div (2 * x.den) IN
    Rat((IF x.num < 0 THEN -1 ELSE 1) * n, 10000)

\* a window that opens Math.ceil(window / 2) before the position
movingAverage_startCeil(values, window) ==
    IF window <= 1 THEN values
    ELSE [k \in 1..Len(values) |->
            IF IsNullish(values[k]) THEN Null
            ELSE LET start == Max(0, (k - 1) - CeilHalf(window))
                     end   == Min(Len(values), (k - 1) + CeilHalf(window))
                     kept  == SelectSeq(slice(values, start, end), LAMBDA v : ~IsNullish(v))
                 IN  IF Len(kept) = 0 THEN Null
                     ELSE toFixed4(Div(reduceSum(kept), Len(kept)))]

\* a window that is never narrower than two positions
movingAverage_minTwo(values, window) ==
    IF window <= 0 THEN values
    ELSE [k \in 1..Len(values) |->
            LET idx == k - 1
                w   == Max(window, 2) IN
            IF IsNullish(values[k]) THEN Null
            ELSE LET start == Max(0, idx - FloorHalf(w))
                     end   == Min(Len(values), idx + CeilHalf(w))
                     kept  == SelectSeq(slice(values, start, end), LAMBDA v : ~IsNullish(v))
                 IN  IF Len(kept) = 0 THEN Null
                     ELSE toFixed4(Div(reduceSum(kept), Len(kept)))]

\* Number((slice.reduce(...) / slice.length).toFixed(4)), lines 25-26: a number
\* when every value is one; the mean of logarithms is not a fraction and is kept
\* as the term [t |-> "fixed4", s |-> the values averaged]
averageFixed4(kept) ==
    IF \A k \in 1..Len(kept) : kept[k].t = "number"
    THEN toFixed4(Div(reduceSum(kept), Len(kept)))
    ELSE [t |-> "fixed4", s |-> kept, num |-> 0, den |-> 1]

\* movingAverage(values, window), lines 17-28
movingAverage(values, window) ==
    IF window <= 1 THEN values
    ELSE [k \in 1..Len(values) |->
            LET idx == k - 1 IN
            IF IsNullish(values[k]) THEN Null
            ELSE LET start == Max(0, idx - FloorHalf(window))
                     end   == Min(Len(values), idx + CeilHalf(window))
                     kept  == SelectSeq(slice(values, start, end), LAMBDA v : ~IsNullish(v))
                 IN  IF Len(kept) = 0 THEN Null
                     ELSE averageFixed4(kept)]

MaxValues == 5
\* the range of the smoothing slider, lines 243-244
MinWindow == 1
MaxWindow == 5

SmoothValues == {Null, Num(1), Num(2), Num(3), Num(5)}

SmoothInit ==
    /\ mavg \in {[pc |-> "values", values |-> xs, window |-> w, out |-> <<>>] :
                    xs \in SeqsUpTo(SmoothValues, MaxValues), w \in MinWindow..MaxWindow}
    /\ impl = "none" /\ rows = <<>> /\ years = <<>> /\ i = 0
    /\ records = <<>> /\ anchors = <<>> /\ pc = "idle"
    /\ parse = Idle /\ agg = Idle /\ median = Idle /\ align = Idle /\ app = Idle /\ csv = Idle

movingAverage_Call ==
    /\ mavg.pc = "values"
    /\ mavg' = [mavg EXCEPT !.pc = "done", !.out = movingAverage(mavg.values, mavg.window)]
    /\ UNCHANGED <<tidyVars, parse, agg, median, align, app, csv>>

SmoothNext == movingAverage_Call

SpecSmooth == SmoothInit /\ [][SmoothNext]_vars

\* the positions of the non-null values in the window of position idx (0-based):
\* [max(0, idx - floor(W/2)), min(length, idx + ceil(W/2)))
InWindow(idx) ==
    {j \in 0..(Len(mavg.values) - 1) :
        /\ j >= idx - (mavg.window \div 2) /\ j >= 0
        /\ j < idx + mavg.window - (mavg.window \div 2) /\ j < Len(mavg.values)
        /\ mavg.values[j + 1].t = "number"}
RECURSIVE SumValues(_)
SumValues(J) ==
    IF J = {} THEN 0
    ELSE LET j == CHOOSE x \in J : TRUE IN mavg.values[j + 1].num + SumValues(J \ {j})

\* C10, as claimed: a null stays null, and every other position holds the
\* arithmetic mean of the non-null values in its window.
C10_WindowMean ==
    mavg.pc = "done" =>
        /\ Len(mavg.out) = Len(mavg.values)
        /\ \A idx \in 0..(Len(mavg.values) - 1) :
              IF mavg.values[idx + 1] = Null THEN mavg.out[idx + 1] = Null
              ELSE /\ mavg.out[idx + 1].t = "number"
                   /\ mavg.out[idx + 1].num * Cardinality(InWindow(idx))
                         = mavg.out[idx + 1].den * SumValues(InWindow(idx))

\* C10, amended: a null stays null; for a window of 2 or more every other position
\* holds the arithmetic mean of the non-null values in its window rounded to four
\* decimal places, and for the window 1 the value itself.
C10_WindowMeanRounded ==
    mavg.pc = "done" =>
        /\ Len(mavg.out) = Len(mavg.values)
        /\ \A idx \in 0..(Len(mavg.values) - 1) :
              LET o == mavg.out[idx + 1]
                  c == Cardinality(InWindow(idx))
                  S == SumValues(InWindow(idx))
              IN  IF mavg.values[idx + 1] = Null THEN o = Null
                  ELSE IF mavg.window = 1 THEN o = mavg.values[idx + 1]
                  ELSE /\ o.t = "number" /\ 10000 % o.den = 0
                       /\ 2 * Abs((o.num * (10000 \div o.den)) * c - 10000 * S) <= c

C10_Witness ==
    /\ mavg.pc = "done"
    /\ mavg.values = <<Num(1), Num(2), Num(3), Null, Num(5)>> /\ mavg.window = 3
    /\ mavg.out = <<Rat(3, 2), Num(2), Rat(5, 2), Null, Num(5)>>

\* C11: smoothing with the window 1 is the identity: the result has the length,
\* the values and the nulls of the given sequence, element for element.
C11_WindowOneIdentity ==
    (mavg.pc = "done" /\ mavg.window = 1) =>
        /\ Len(mavg.out) = Len(mavg.values)
        /\ \A k \in 1..Len(mavg.values) : mavg.out[k] = mavg.values[k]

C11_Witness ==
    /\ mavg.pc = "done" /\ mavg.window = 1
    /\ mavg.values = <<Num(1), Null, Num(3), Num(5)>>
    /\ mavg.out = <<Num(1), Null, Num(3), Num(5)>>

(***************************************************************************)
(* Scenario Projector                                                      *)
(*                                                                         *)
(* The running P/S multiple grows past the range of a fraction of machine  *)
(* integers, so it is kept as a product of prime powers: a function from   *)
(* its prime factors to their non-zero exponents (the empty function is 1).*)
(* Math.log of such a product is [t |-> "lnp", fac |-> the product].       *)
(***************************************************************************)
One == [p \in {} |-> 0]

RECURSIVE smallestFactor(_, _)
smallestFactor(n, d) ==
    IF d * d > n THEN n ELSE IF n % d = 0 THEN d ELSE smallestFactor(n, d + 1)

Times(f, g) ==
    LET e(p) == (IF p \in DOMAIN f THEN f[p] ELSE 0) + (IF p \in DOMAIN g THEN g[p] ELSE 0)
    IN  [p \in {q \in (DOMAIN f) \cup (DOMAIN g) : e(q) # 0} |-> e(p)]
Inverse(f) == [p \in DOMAIN f |-> -f[p]]

\* the product of prime powers that is the whole number n >= 1
RECURSIVE Factors(_)
Factors(n) ==
    IF n = 1 THEN One
    ELSE LET p == smallestFactor(n, 2) IN Times([q \in {p} |-> 1], Factors(n \div p))

\* the product of prime powers that is the positive number x
Product(x) == Times(Factors(x.num), Inverse(Factors(x.den)))

\* Math.exp(v) of the logarithm v of a positive fraction (line 513)
MathExp(v) ==
    IF v.t = "ln" THEN Product(Rat(v.num, v.den))
    ELSE IF v.t = "lnp" THEN v.fac
    ELSE One
\* Math.log(x) of a product of prime powers (line 520)
MathLogProduct(x) == [t |-> "lnp", s |-> <<>>, num |-> 0, den |-> 1, fac |-> x]

\* the years of the scenario loop, line 517
ScenarioFirstYear == 2025
ScenarioLastYear  == 2032

\* 1 + customGrowth / 100, line 518
growthFactor(customGrowth) == Product(Rat(100 + customGrowth, 100))

\* a step that takes the logarithm before it applies the growth
scenarioStep_logFirst(currentPs, customGrowth) ==
    [currentPs |-> Times(currentPs, growthFactor(customGrowth)),
     log       |-> MathLogProduct(currentPs)]

\* one iteration of the loop, lines 518-520: the new running value and the
\* logarithm pushed
scenarioStep(currentPs, customGrowth) ==
    LET next == Times(currentPs, growthFactor(customGrowth)) IN
    [currentPs |-> next, log |-> MathLogProduct(next)]

\* the loop of lines 517-521 from the given year on
RECURSIVE scenarioLoop(_, _, _)
scenarioLoop(currentPs, year, customGrowth) ==
    IF ~(year <= ScenarioLastYear) THEN [years |-> <<>>, data |-> <<>>]
    ELSE LET step == scenarioStep(currentPs, customGrowth)
             rest == scenarioLoop(step.currentPs, year + 1, customGrowth)
         IN  [years |-> <<year>> \o rest.years, data |-> <<step.log>> \o rest.data]

\* a filter that keeps every value
nonNull_keepAll(values) == values

\* series.bigTech.filter((v) => v != null), line 509
nonNull(values) == SelectSeq(values, LAMBDA v : ~IsNullish(v))

\* the scenario memo, lines 507-523
scenario(series, customGrowth) ==
    IF series = Null THEN [years |-> <<>>, data |-> <<>>]
    ELSE LET bigVals == nonNull(series.bigTech) IN
         IF Len(bigVals) = 0 THEN [years |-> <<>>, data |-> <<>>]
         ELSE LET lastLog == bigVals[Len(bigVals)] IN
              scenarioLoop(MathExp(lastLog), ScenarioFirstYear, customGrowth)

(***************************************************************************)
(* App: the memo chain of lines 465-546                                    *)
(***************************************************************************)
\* the series memo, lines 465-486; null while every cohort is empty
series(dotcom, aiPure, aiNiche) ==
    IF Len(dotcom) = 0 /\ Len(aiPure) = 0 /\ Len(aiNiche) = 0 THEN Null
    ELSE alignSeries(computeAvgLogPsByYear(dotcom),
                     computeAvgLogPsByYear(aiPure),
                     computeAvgLogPsByYear(aiNiche))

\* the filteredIndices memo, lines 489-494
filteredIndices(s, range) ==
    IF s = Null THEN <<>>
    ELSE SelectSeq([k \in 1..Len(s.years) |-> [year |-> s.years[k], idx |-> k - 1]],
                   LAMBDA e : e.year >= range[1] /\ e.year <= range[2])

\* the smoothed memo, lines 497-504
smoothed(s, smooth) ==
    IF s = Null THEN Null
    ELSE [dotcom  |-> movingAverage(s.dotcom, smooth),
          bigTech |-> movingAverage(s.bigTech, smooth),
          pureAI  |-> movingAverage(s.pureAI, smooth)]

\* the allLabels memo, lines 526-530
allLabels(s, sc) ==
    IF s = Null THEN <<>> ELSE sortYears(unique(s.years \o sc.years))

\* align(years, values) of the alignedData memo, lines 535-538
alignLabels(labels, ys, values) ==
    [k \in 1..Len(labels) |->
        IF mapHas(ys, labels[k]) THEN mapLast(ys, values, labels[k]) ELSE Null]

\* the alignedData memo, lines 533-546
alignedData(s, sm, sc, labels) ==
    IF s = Null \/ sm = Null THEN Null
    ELSE [dotcom   |-> alignLabels(labels, s.years, sm.dotcom),
          bigTech  |-> alignLabels(labels, s.years, sm.bigTech),
          pureAI   |-> alignLabels(labels, s.years, sm.pureAI),
          scenario |-> alignLabels(labels, sc.years, sc.data)]

\* useMemo(() => value, deps): the value of the last render whose dependencies
\* differed from those of the render before it
useMemo(old, deps, value) ==
    IF old.deps = deps THEN old ELSE [deps |-> deps, value |-> value]

\* the dependency arrays of lines 486, 494, 504, 523, 530 and 546
seriesDeps(st)             == <<st.dotcom, st.aiPure, st.aiNiche>>
filteredIndicesDeps(st, s) == <<s, st.range>>
smoothedDeps(st, s)        == <<s, st.smooth>>
\* a scenario memo that does not list the growth rate
scenarioDeps_seriesOnly(st, s) == <<s>>
scenarioDeps(st, s)        == <<s, st.customGrowth>>
allLabelsDeps(s, sc)       == <<s, sc>>
alignedDataDeps(s, sm, sc, labels) == <<s, sm, sc, labels>>

\* one render of App over the state st with the memos of the render before: the
\* memos in the order of lines 465-546, each from the values of those before it
renderAligned(st, memo, s, sm, sc, al) ==
    [series          |-> s,
     filteredIndices |-> useMemo(memo.filteredIndices, filteredIndicesDeps(st, s.value),
                                 filteredIndices(s.value, st.range)),
     smoothed        |-> sm,
     scenario        |-> sc,
     allLabels       |-> al,
     alignedData     |-> useMemo(memo.alignedData,
                                 alignedDataDeps(s.value, sm.value, sc.value, al.value),
                                 alignedData(s.value, sm.value, sc.value, al.value))]
renderLabels(st, memo, s, sm, sc) ==
    renderAligned(st, memo, s, sm, sc,
                  useMemo(memo.allLabels, allLabelsDeps(s.value, sc.value),
                          allLabels(s.value, sc.value)))
renderDerived(st, memo, s) ==
    renderLabels(st, memo, s,
                 useMemo(memo.smoothed, smoothedDeps(st, s.value),
                         smoothed(s.value, st.smooth)),
                 useMemo(memo.scenario, scenarioDeps(st, s.value),
                         scenario(s.value, st.customGrowth)))
render(st, memo) ==
    renderDerived(st, memo,
                  useMemo(memo.series, seriesDeps(st),
                          series(st.dotcom, st.aiPure, st.aiNiche)))

\* the memos before the first render
NoMemo == [deps |-> <<>>, value |-> Null]
Unrendered ==
    [series |-> NoMemo, filteredIndices |-> NoMemo, smoothed |-> NoMemo,
     scenario |-> NoMemo, allLabels |-> NoMemo, alignedData |-> NoMemo]

(***************************************************************************)
(* App (lines 425-620) and useBubbleData (lines 806-855)                   *)
(*                                                                         *)
(* app.st is the component state, app.memo the memos of the last render,   *)
(* app.pc the position of the load, app.loaded the rows read so far and    *)
(* app.thrown the message of a thrown error; app.event is the last move of  *)
(* a year slider or reset.  The code between two awaits runs to completion, *)
(* and the render that follows it is part of the step.                     *)
(***************************************************************************)
\* the target years, lines 450-452 and 728-729
DOTCOM_YEARS == <<1996, 1997, 1998, 1999, 2000>>
AI_YEARS     == <<2020, 2021, 2022, 2023, 2024, 2025>>
\* the two year sliders, lines 257-258 and 270-271
RangeMin == 1996
RangeMax == 2025
\* the growth slider, lines 290-291
GrowthMin == 5
GrowthMax == 40
\* the state of the first render, lines 427-429, and of reset, lines 616-618
DefaultSmooth == 2
DefaultRange  == <<RangeMin, RangeMax>>
DefaultGrowth == 18

Message(text) == Str(<<text>>)

\* sheet_to_json(sheet, { defval: "" }), line 77: one object per data row, keyed by
\* the header row, a missing cell is ""
loadExcelAsObjects(table) ==
    IF table = <<>> THEN <<>>
    ELSE [r \in 1..(Len(table) - 1) |->
            [keys |-> table[1],
             vals |-> [k \in 1..Len(table[1]) |->
                         IF k <= Len(table[r + 1]) THEN table[r + 1][k] ELSE EMPTY]]]

\* cell.replace(/^"|"$/g, ''), line 743
stripQuotes(s) ==
    LET a == IF s # <<>> /\ Head(s) = "\"" THEN Tail(s) ELSE s IN
    IF a # <<>> /\ a[Len(a)] = "\"" THEN SubSeq(a, 1, Len(a) - 1) ELSE a
\* parseCsvRows, lines 739-744, over the cells of the lines
parseCsvRows(table) ==
    [r \in 1..Len(table) |-> [k \in 1..Len(table[r]) |-> Str(stripQuotes(table[r][k].s))]]

\* .map((row) => ({ ...row, Era: era })), lines 841-843
withEra(recs, era) ==
    [k \in 1..Len(recs) |->
        [Company |-> recs[k].Company, Year |-> recs[k].Year, MarketCap |-> recs[k].MarketCap,
         Revenue |-> recs[k].Revenue, ValRev |-> recs[k].ValRev, Era |-> era]]

\* what Dashboard shows, lines 1088-1092 and 882-904: the average plot once the
\* load is over without an error, nothing before
dashboard(st) ==
    IF ~st.loading /\ Falsy(st.error)
    THEN averagePlot(<<groupMeanByYear(st.dotcom), groupMeanByYear(st.aiPure),
                       groupMeanByYear(st.aiNiche)>>)
    ELSE Null

\* a catch that records no message
errorMessage_none(thrown) == EMPTY
\* e.message || "Failed to load data", line 455
errorMessage(thrown) == Or(thrown, Message("Failed to load data"))

\* a load that leaves the flag as it is
finallyBlock_skip(st) == st
\* finally { setLoading(false) }, lines 456-458
finallyBlock(st) == [st EXCEPT !.loading = FALSE]

\* a "from" slider that takes the position as it is
clampFrom_asIs(next, range) == <<next, range[2]>>
\* [Math.min(next, range[1]), range[1]], line 262
clampFrom(next, range) == <<Min(next, range[2]), range[2]>>
\* [range[0], Math.max(next, range[0])], line 275
clampTo(next, range) == <<range[1], Max(next, range[1])>>

\* the state of App after a state update and the render it causes
commit(a, st) == [a EXCEPT !.st = st, !.memo = render(st, a.memo)]

(***************************************************************************)
(* Inputs of App: the content of a source file                             *)
(***************************************************************************)
yearCell(y) == Str(NatToString(y))
PanelHeader(ys) == <<COMPANY, METRIC>> \o [k \in 1..Len(ys) |-> yearCell(ys[k])]
\* the three rows of one company whose Valuation/Revenue cells are vr
PanelBlock(ys, vr) ==
    << <<Str(<<"A">>), MARKET_CAP>> \o [k \in 1..Len(ys) |-> Str(<<"4", "0">>)],
       <<EMPTY, REVENUE>> \o [k \in 1..Len(ys) |-> Str(<<"2">>)],
       <<EMPTY, VAL_REV>> \o vr >>
Panels(ys) ==
    { <<>>,
      <<PanelHeader(ys)>>,
      <<PanelHeader(ys)>> \o PanelBlock(ys, [k \in 1..Len(ys) |-> EMPTY]),
      <<PanelHeader(ys)>> \o PanelBlock(ys, [k \in 1..Len(ys) |->
                                                IF k = 1 THEN Str(<<"1", "0">>) ELSE EMPTY]),
      <<PanelHeader(ys)>> \o PanelBlock(ys, [k \in 1..Len(ys) |-> Str(<<"2", "0">>)]) }
\* how the retrieval of a file ends: a response that is ok, one that is not, or a
\* rejected fetch
Retrievals == {"ok", "notOk", "reject"}
\* the positions the year sliders, the growth slider and the smoothing slider
\* are moved to, each within the slider's min and max
RangeInputs  == {RangeMin, 2021, RangeMax}
GrowthInputs == {g \in GrowthMin..GrowthMax : g = 10}
SmoothInputs == {MinWindow, 3}
NoEvent == [op |-> "none", next |-> 0]

AppInit ==
    /\ app \in {
          LET st == [smooth |-> DefaultSmooth, range |-> DefaultRange,
                     customGrowth |-> DefaultGrowth,
                     dotcom |-> <<>>, aiPure |-> <<>>, aiNiche |-> <<>>,
                     loading |-> TRUE, error |-> EMPTY] IN
          [impl |-> "App", pc |-> "loadAll", st |-> st, memo |-> render(st, Unrendered),
           loaded |-> <<>>, thrown |-> Null, event |-> NoEvent],
          LET st == [loading |-> TRUE, error |-> Null,
                     dotcom |-> <<>>, aiPure |-> <<>>, aiNiche |-> <<>>] IN
          [impl |-> "useBubbleData", pc |-> "loadData", st |-> st, memo |-> dashboard(st),
           loaded |-> <<>>, thrown |-> Null, event |-> NoEvent] }
    /\ impl = "none" /\ rows = <<>> /\ years = <<>> /\ i = 0
    /\ records = <<>> /\ anchors = <<>> /\ pc = "idle"
    /\ parse = Idle /\ agg = Idle /\ median = Idle /\ align = Idle /\ mavg = Idle
    /\ csv = Idle

\* loadAll up to its first await, lines 441-444
loadAll_Start ==
    /\ app.impl = "App" /\ app.pc = "loadAll"
    /\ app' = [commit(app, [app.st EXCEPT !.loading = TRUE, !.error = EMPTY])
                  EXCEPT !.pc = "dotRows"]
    /\ UNCHANGED <<tidyVars, parse, agg, median, align, mavg, csv>>

\* await loadCsvAsObjects(...), lines 444-446 and 50-66
loadAll_DotRows ==
    /\ app.impl = "App" /\ app.pc = "dotRows"
    /\ \E r \in Retrievals, table \in Panels(DOTCOM_YEARS) :
          app' = CASE r = "reject" ->
                        [app EXCEPT !.pc = "catch", !.thrown = Message("Failed to fetch")]
                   [] r = "notOk" ->
                        [app EXCEPT !.pc = "catch", !.thrown = Message("Failed to load CSV")]
                   [] OTHER ->
                        [app EXCEPT !.pc = "nicheRows",
                                    !.loaded = Append(@, loadCsvAsObjects(table))]
    /\ UNCHANGED <<tidyVars, parse, agg, median, align, mavg, csv>>

\* await loadExcelAsObjects(...), lines 447-448 and 69-78
loadAll_ExcelRows ==
    /\ app.impl = "App" /\ app.pc \in {"nicheRows", "pureRows"}
    /\ \E r \in Retrievals, table \in Panels(AI_YEARS) :
          app' = CASE r = "reject" ->
                        [app EXCEPT !.pc = "catch", !.thrown = Message("Failed to fetch")]
                   [] r = "notOk" ->
                        [app EXCEPT !.pc = "catch", !.thrown = Message("Failed to load Excel")]
                   [] OTHER ->
                        [app EXCEPT !.pc = IF app.pc = "nicheRows" THEN "pureRows" ELSE "publish",
                                    !.loaded = Append(@, loadExcelAsObjects(table))]
    /\ UNCHANGED <<tidyVars, parse, agg, median, align, mavg, csv>>

\* the three setters and the finally block, lines 450-452 and 456-458
loadAll_Publish ==
    /\ app.impl = "App" /\ app.pc = "publish"
    /\ app' = [commit(app, finallyBlock([app.st EXCEPT
                               !.dotcom  = tidyPanelJS(app.loaded[1], DOTCOM_YEARS),
                               !.aiNiche = tidyPanelJS(app.loaded[2], AI_YEARS),
                               !.aiPure  = tidyPanelJS(app.loaded[3], AI_YEARS)]))
                  EXCEPT !.pc = "done"]
    /\ UNCHANGED <<tidyVars, parse, agg, median, align, mavg, csv>>

\* the catch and the finally block, lines 453-458
loadAll_Catch ==
    /\ app.impl = "App" /\ app.pc = "catch"
    /\ app' = [commit(app, finallyBlock([app.st EXCEPT !.error = errorMessage(app.thrown)]))
                  EXCEPT !.pc = "done"]
    /\ UNCHANGED <<tidyVars, parse, agg, median, align, mavg, csv>>

\* the smoothing slider, lines 241-247
setSmooth ==
    /\ app.impl = "App"
    /\ \E next \in SmoothInputs :
          app' = commit(app, [app.st EXCEPT !.smooth = next])
    /\ UNCHANGED <<tidyVars, parse, agg, median, align, mavg, csv>>

\* the "from" slider, lines 255-264
setRangeFrom ==
    /\ app.impl = "App"
    /\ \E next \in RangeInputs :
          app' = [commit(app, [app.st EXCEPT !.range = clampFrom(next, app.st.range)])
                     EXCEPT !.event = [op |-> "from", next |-> next]]
    /\ UNCHANGED <<tidyVars, parse, agg, median, align, mavg, csv>>

\* the "to" slider, lines 268-277
setRangeTo ==
    /\ app.impl = "App"
    /\ \E next \in RangeInputs :
          app' = [commit(app, [app.st EXCEPT !.range = clampTo(next, app.st.range)])
                     EXCEPT !.event = [op |-> "to", next |-> next]]
    /\ UNCHANGED <<tidyVars, parse, agg, median, align, mavg, csv>>

\* the growth slider, lines 288-294
setCustomGrowth ==
    /\ app.impl = "App"
    /\ \E next \in GrowthInputs :
          app' = commit(app, [app.st EXCEPT !.customGrowth = next])
    /\ UNCHANGED <<tidyVars, parse, agg, median, align, mavg, csv>>

\* reset, lines 614-620
reset ==
    /\ app.impl = "App"
    /\ app' = [commit(app, [app.st EXCEPT !.smooth = DefaultSmooth, !.range = DefaultRange,
                                         !.customGrowth = DefaultGrowth])
                  EXCEPT !.event = [op |-> "reset", next |-> 0]]
    /\ UNCHANGED <<tidyVars, parse, agg, median, align, mavg, csv>>

\* the three fetches and the check of their responses, lines 812-820
loadData_Fetch ==
    /\ app.impl = "useBubbleData" /\ app.pc = "loadData"
    /\ \E rs \in [1..3 -> Retrievals] :
          app' = IF \E n \in 1..3 : rs[n] = "reject"
                 THEN [app EXCEPT !.pc = "catch", !.thrown = Message("Failed to fetch")]
                 ELSE IF \E n \in 1..3 : rs[n] = "notOk"
                 THEN [app EXCEPT !.pc = "catch",
                                  !.thrown = Message("Unable to load source files")]
                 ELSE [app EXCEPT !.pc = "read"]
    /\ UNCHANGED <<tidyVars, parse, agg, median, align, mavg, csv>>

\* the bodies and their rows, lines 822-839; XLSX.read throws on a file it cannot
\* read
loadData_Read ==
    /\ app.impl = "useBubbleData" /\ app.pc = "read"
    /\ \/ \E dot \in Panels(DOTCOM_YEARS), broad \in Panels(AI_YEARS), pure \in Panels(AI_YEARS) :
             app' = [app EXCEPT !.pc = "setData",
                                !.loaded = <<parseCsvRows(dot), broad, pure>>]
       \/ app' = [app EXCEPT !.pc = "catch", !.thrown = Message("Unsupported file")]
    /\ UNCHANGED <<tidyVars, parse, agg, median, align, mavg, csv>>

\* lines 841-845
loadData_SetData ==
    /\ app.impl = "useBubbleData" /\ app.pc = "setData"
    /\ LET st == [loading |-> FALSE, error |-> Null,
                  dotcom  |-> withEra(tidyPanel(app.loaded[1], DOTCOM_YEARS), "Dot-com"),
                  aiPure  |-> withEra(tidyPanel(app.loaded[3], AI_YEARS), "Big Tech AI"),
                  aiNiche |-> withEra(tidyPanel(app.loaded[2], AI_YEARS), "Pure-play AI")] IN
       app' = [app EXCEPT !.pc = "done", !.st = st, !.memo = dashboard(st)]
    /\ UNCHANGED <<tidyVars, parse, agg, median, align, mavg, csv>>

\* the catch, lines 846-848
loadData_Catch ==
    /\ app.impl = "useBubbleData" /\ app.pc = "catch"
    /\ LET st == [loading |-> FALSE, error |-> app.thrown,
                  dotcom |-> <<>>, aiPure |-> <<>>, aiNiche |-> <<>>] IN
       app' = [app EXCEPT !.pc = "done", !.st = st, !.memo = dashboard(st)]
    /\ UNCHANGED <<tidyVars, parse, agg, median, align, mavg, csv>>

AppNext ==
    \/ loadAll_Start \/ loadAll_DotRows \/ loadAll_ExcelRows \/ loadAll_Publish \/ loadAll_Catch
    \/ setSmooth \/ setRangeFrom \/ setRangeTo \/ setCustomGrowth \/ reset
    \/ loadData_Fetch \/ loadData_Read \/ loadData_SetData \/ loadData_Catch

SpecApp == AppInit /\ [][AppNext]_vars

\* the steps of the load
LoadNext ==
    \/ loadAll_Start \/ loadAll_DotRows \/ loadAll_ExcelRows \/ loadAll_Publish \/ loadAll_Catch
    \/ loadData_Fetch \/ loadData_Read \/ loadData_SetData \/ loadData_Catch
\* the load alone, with resets at any time: no handler of a control reads or
\* writes the loading flag, the error or the position of the load
LoadOrReset == LoadNext \/ reset
\* An awaited fetch or read settles and its continuation runs: a load that can
\* take a step takes one.  This is WF_vars(LoadNext) with its ENABLED written
\* out: a step of the load is possible exactly while app.pc # "done".
LoadFair == []<>(app.pc = "done") \/ []<><<LoadNext>>_vars
SpecLoad == AppInit /\ [][LoadOrReset]_vars /\ LoadFair

(***************************************************************************)
(* Properties of the Scenario Projector                                    *)
(***************************************************************************)
\* f to the power k
Power(f, k) == [p \in DOMAIN f |-> k * f[p]]
\* the last non-null value of the cohort's aligned series, null when it has none
lastValue(values) ==
    IF \E k \in 1..Len(values) : ~IsNullish(values[k])
    THEN values[CHOOSE k \in 1..Len(values) :
                   ~IsNullish(values[k]) /\ \A j \in (k + 1)..Len(values) : IsNullish(values[j])]
    ELSE Null
\* the cohort of the scenario has a value in the last render
Projected ==
    /\ app.impl = "App" /\ app.memo.series.value # Null
    /\ lastValue(app.memo.series.value.bigTech) # Null

\* C12: with L the last non-null value of the cohort's aligned series and r the
\* growth rate, the k-th projected value is ln(exp(L) * (1 + r)^k) for every k of
\* the horizon, and each value is the one before it (exp(L) for the first) grown
\* by (1 + r): the output is a function of L, r and the horizon only.
C12_CompoundGrowth ==
    Projected =>
        LET L    == lastValue(app.memo.series.value.bigTech)
            r    == Product(Rat(100 + app.st.customGrowth, 100))
            data == app.memo.scenario.value.data
        IN  /\ Len(data) = ScenarioLastYear - ScenarioFirstYear + 1
            /\ \A k \in 1..Len(data) :
                  /\ data[k] = MathLogProduct(Times(MathExp(L), Power(r, k)))
                  /\ MathExp(data[k]) = Times(MathExp(IF k = 1 THEN L ELSE data[k - 1]), r)

\* L = ln(20) and r = 0.1 give ln(22) and ln(24.2) for the first two years
C12_Witness ==
    /\ Projected
    /\ lastValue(app.memo.series.value.bigTech) = Ln(Num(20))
    /\ app.st.customGrowth = 10
    /\ SubSeq(app.memo.scenario.value.data, 1, 2)
          = <<MathLogProduct(Product(Num(22))), MathLogProduct(Product(Rat(242, 10)))>>

\* the year of the last non-null value of the cohort's aligned series
lastObservedYear ==
    LET s == app.memo.series.value IN
    s.years[CHOOSE k \in 1..Len(s.bigTech) :
               ~IsNullish(s.bigTech[k]) /\ \A j \in (k + 1)..Len(s.bigTech) : IsNullish(s.bigTech[j])]

\* C13: the scenario years are ascending and contiguous, start at the year right
\* after the cohort's last observed year and are all greater than that year.
C13_ScenarioYears ==
    Projected =>
        LET ys == app.memo.scenario.value.years IN
        /\ Len(ys) > 0
        /\ \A k \in 1..(Len(ys) - 1) : ys[k + 1] = ys[k] + 1
        /\ ys[1] = lastObservedYear + 1
        /\ \A k \in 1..Len(ys) : ys[k] > lastObservedYear

(***************************************************************************)
(* Properties of App and useBubbleData                                     *)
(***************************************************************************)
\* the load is over and nothing was thrown
Loaded == app.pc = "done" /\ app.thrown = Null
\* the three cohorts of the state; app.loaded holds their rows in the order
\* dot-com, pure-play (niche / broad), Big Tech (pure)
Cohorts == <<app.st.dotcom, app.st.aiNiche, app.st.aiPure>>
noValidValRev(recs) == \A k \in 1..Len(recs) : ~(recs[k].ValRev.t = "number" /\ recs[k].ValRev.num > 0)
EmptyScenario == [years |-> <<>>, data |-> <<>>]

\* C14: every stage maps an empty input to an empty output: zero rows give zero
\* records; records without a valid valRev (none at all included) give a series
\* with no years and no values; an empty sequence is smoothed to an empty
\* sequence; a cohort without a non-null value gives the empty scenario.
C14_EmptyInEmptyOut ==
    /\ app.impl \in {"App", "useBubbleData"}
    /\ Loaded => \A n \in 1..3 : Len(app.loaded[n]) = 0 => Cohorts[n] = <<>>
    /\ app.impl = "App" =>
          /\ \A n \in 1..3 :
                noValidValRev(Cohorts[n])
                   => computeAvgLogPsByYear(Cohorts[n]) = [years |-> <<>>, values |-> <<>>]
          /\ app.memo.series.value # Null =>
                /\ Len(app.memo.series.value.dotcom) = 0 => app.memo.smoothed.value.dotcom = <<>>
                /\ Len(app.memo.series.value.bigTech) = 0 => app.memo.smoothed.value.bigTech = <<>>
                /\ Len(app.memo.series.value.pureAI) = 0 => app.memo.smoothed.value.pureAI = <<>>
          /\ ~Projected => app.memo.scenario.value = EmptyScenario
    /\ app.impl = "useBubbleData" =>
          \A n \in 1..3 :
              noValidValRev(Cohorts[n])
                 => groupMeanByYear(Cohorts[n]) = [labels |-> <<>>, values |-> <<>>]

\* a load with no dot-com row and no valid valRev in the other two cohorts: every
\* stage runs on an empty input (window 3)
C14_Witness ==
    /\ app.impl = "App" /\ Loaded
    /\ app.loaded[1] = <<>> /\ app.st.dotcom = <<>>
    /\ Len(app.st.aiPure) > 0 /\ noValidValRev(app.st.aiPure)
    /\ Len(app.st.aiNiche) > 0 /\ noValidValRev(app.st.aiNiche)
    /\ app.st.smooth = 3
    /\ app.memo.series.value # Null /\ app.memo.series.value.years = <<>>
    /\ app.memo.smoothed.value = [dotcom |-> <<>>, bigTech |-> <<>>, pureAI |-> <<>>]
    /\ app.memo.scenario.value = EmptyScenario

\* C16: once a retrieval (or the reading of a file) has failed no cohort is
\* published, and the load ends with an error message recorded, the three
\* cohorts empty and nothing derived from them: no series, no smoothed series,
\* no aligned data, no indices, no labels, the empty scenario; no dashboard.
C16_FailedLoadIsEmpty ==
    app.thrown # Null =>
        /\ Cohorts = << <<>>, <<>>, <<>> >>
        /\ app.pc \in {"catch", "done"}
        /\ app.pc = "done" =>
              /\ app.st.error.t = "string" /\ Truthy(app.st.error)
              /\ ~app.st.loading
              /\ app.impl = "App" =>
                    /\ app.memo.series.value = Null
                    /\ app.memo.filteredIndices.value = <<>>
                    /\ app.memo.smoothed.value = Null
                    /\ app.memo.scenario.value = EmptyScenario
                    /\ app.memo.allLabels.value = <<>>
                    /\ app.memo.alignedData.value = Null
              /\ app.impl = "useBubbleData" => app.memo = Null

\* the third retrieval fails after two files with rows were read
C16_Witness ==
    /\ app.impl = "App" /\ app.pc = "done"
    /\ Len(app.loaded) = 2 /\ Len(app.loaded[1]) > 0 /\ Len(app.loaded[2]) > 0
    /\ app.thrown = Message("Failed to load Excel")
    /\ app.st.error = Message("Failed to load Excel")
    /\ app.st.smooth = 3

\* C17: in every state of App, whatever the order of the changes of the cohorts
\* and of the controls before it, each derived output is the pipeline applied from
\* scratch to the current cohorts and controls.
C17_NoStaleOutput ==
    app.impl = "App" =>
        LET s  == series(app.st.dotcom, app.st.aiPure, app.st.aiNiche)
            sm == smoothed(s, app.st.smooth)
            sc == scenario(s, app.st.customGrowth)
            al == allLabels(s, sc)
        IN  /\ app.memo.series.value = s
            /\ app.memo.filteredIndices.value = filteredIndices(s, app.st.range)
            /\ app.memo.smoothed.value = sm
            /\ app.memo.scenario.value = sc
            /\ app.memo.allLabels.value = al
            /\ app.memo.alignedData.value = alignedData(s, sm, sc, al)

\* every control was moved before the data arrived, the "to" slider last
C17_Witness ==
    /\ app.impl = "App" /\ Loaded
    /\ app.st.smooth = 3 /\ app.st.customGrowth = 10 /\ app.st.range = <<2021, 2021>>
    /\ app.event = [op |-> "to", next |-> RangeMin]
    /\ app.memo.alignedData.value # Null
    /\ Len(app.memo.filteredIndices.value) = 1
    /\ Len(app.memo.scenario.value.data) > 0

\* the year range is within the sliders' bounds and in order
RangeInOrder ==
    app.impl = "App" =>
        /\ RangeMin <= app.st.range[1] /\ app.st.range[1] <= app.st.range[2]
        /\ app.st.range[2] <= RangeMax
\* the range after a step, by the last move of a year slider or reset
RangeStep ==
    (app.impl = "App" /\ app'.impl = "App") =>
        LET e == app'.event
            from == app.st.range[1]
            to   == app.st.range[2]
        IN  /\ e.op = "from" =>
                  app'.st.range = <<IF e.next > to THEN to ELSE e.next, to>>
            /\ e.op = "to" =>
                  app'.st.range = <<from, IF e.next < from THEN from ELSE e.next>>
            /\ e.op = "reset" => app'.st.range = <<RangeMin, RangeMax>>
            /\ e.op = "none" => app'.st.range = <<RangeMin, RangeMax>>

\* C18: 1996 <= range[0] <= range[1] <= 2025 in every state; a move of the "from"
\* slider above "to" gives "to", a move of the "to" slider below "from" gives
\* "from", any other move gives the position, and the other bound stays.
C18_RangeClamped == []RangeInOrder /\ [][RangeStep]_vars

\* the "from" slider was moved to 2025 while "to" was 2021
C18_Witness ==
    /\ app.impl = "App"
    /\ app.event = [op |-> "from", next |-> RangeMax]
    /\ app.st.range = <<2021, 2021>>

\* C19: every load comes to its end; the loading flag is true until then and
\* false from then on; after a load in which nothing failed there is no error
\* message.
C19_LoadFinishes ==
    /\ <>(app.pc = "done")
    /\ [](app.pc # "done" => app.st.loading)
    /\ [](app.pc = "done" => ~app.st.loading)
    /\ [](Loaded => Falsy(app.st.error))

C19_Witness ==
    /\ app.impl = "useBubbleData" /\ Loaded
    /\ ~app.st.loading /\ app.st.error = Null
    /\ Len(app.st.aiPure) > 0

(***************************************************************************)
(* Overlay upload: parseCsv, lines 31-47                                   *)
(***************************************************************************)
\* s.split(sep) for a one-character separator
RECURSIVE split(_, _)
split(s, sep) ==
    IF \A k \in 1..Len(s) : s[k] # sep THEN <<s>>
    ELSE LET at == CHOOSE k \in 1..Len(s) : s[k] = sep /\ \A j \in 1..(k - 1) : s[j] # sep IN
         <<SubSeq(s, 1, at - 1)>> \o split(SubSeq(s, at + 1, Len(s)), sep)

\* s.split(/\r?\n/): a carriage return right before a line feed belongs to the
\* separator
splitLines(s) ==
    LET parts == split(s, "\n") IN
    [k \in 1..Len(parts) |->
        IF k < Len(parts) /\ parts[k] # <<>> /\ parts[k][Len(parts[k])] = "\r"
        THEN SubSeq(parts[k], 1, Len(parts[k]) - 1)
        ELSE parts[k]]

\* h.includes(sub)
includes(h, sub) ==
    \E k \in 1..(Len(h) - Len(sub) + 1) : SubSeq(h, k, k + Len(sub) - 1) = sub

\* headers.findIndex((h) => test(h)): the first index that passes, else -1;
\* passes[k] is the outcome of the test on arr[k]
findIndex(arr, passes) ==
    IF \E k \in 1..Len(arr) : passes[k]
    THEN (CHOOSE k \in 1..Len(arr) : passes[k] /\ \A j \in 1..(k - 1) : ~passes[j]) - 1
    ELSE -1

YEAR  == <<"y", "e", "a", "r">>
VALUE == <<"v", "a", "l", "u", "e">>
INDEX == <<"i", "n", "d", "e", "x">>

\* line.split(",").map((cell) => cell.trim()), line 41
lineCells(line) == LET cells == split(line, ",") IN [k \in 1..Len(cells) |-> Str(Trim(cells[k]))]

\* Number(cells[idx]), lines 43-44
cellNumber(cells, idx) == Number(arrayGet(cells, idx))

\* parseCsv(text), lines 31-47
parseCsv(text) ==
    LET lines      == splitLines(Trim(text))
        headerLine == lines[1]
        dataRows   == Tail(lines)
        cols       == split(headerLine, ",")
        headers    == [k \in 1..Len(cols) |-> ToLowerCase(Trim(cols[k]))]
        yearIndex  == findIndex(headers, [k \in 1..Len(headers) |-> includes(headers[k], YEAR)])
        valueIndex == findIndex(headers, [k \in 1..Len(headers) |->
                                    includes(headers[k], VALUE) \/ includes(headers[k], INDEX)])
    IN  IF yearIndex = -1 \/ valueIndex = -1 THEN <<>>
        ELSE SelectSeq([k \in 1..Len(dataRows) |->
                          [year  |-> cellNumber(lineCells(dataRows[k]), yearIndex),
                           value |-> cellNumber(lineCells(dataRows[k]), valueIndex)]],
                       LAMBDA row : IsFinite(row.year) /\ IsFinite(row.value))

(***************************************************************************)
(* Inputs of parseCsv: a header line and data lines joined by line breaks  *)
(***************************************************************************)
MaxCsvRows == 2

CsvHeaders ==
    { <<"y", "e", "a", "r", ",", "v", "a", "l", "u", "e">>,
      <<"I", "n", "d", "e", "x", ",", " ", "Y", "e", "a", "r", "s">>,
      <<"y", "e", "a", "r">>,
      <<"d", "a", "y", ",", "v", "a", "l", "u", "e">> }
CsvLines ==
    { <<"7", ",", "3">>, <<" ", "7", " ", ",", "3", " ">>, <<"7", ",">>, <<",", "3">>,
      <<"7">>, <<>>, <<"x", ",", "3">>, <<"7", ",", "x">>, <<"7", ",", "3", ",", "5">> }
LineBreaks == {<<"\n">>, <<"\r", "\n">>}

RECURSIVE join(_, _)
join(lines, br) ==
    IF Len(lines) = 1 THEN lines[1] ELSE lines[1] \o br \o join(Tail(lines), br)

CsvInit ==
    /\ csv \in {[pc |-> "text", header |-> h, lines |-> ls,
                 text |-> join(<<h>> \o ls, br), out |-> <<>>] :
                    h \in CsvHeaders, ls \in SeqsUpTo(CsvLines, MaxCsvRows), br \in LineBreaks}
    /\ impl = "none" /\ rows = <<>> /\ years = <<>> /\ i = 0
    /\ records = <<>> /\ anchors = <<>> /\ pc = "idle"
    /\ parse = Idle /\ agg = Idle /\ median = Idle /\ align = Idle /\ mavg = Idle
    /\ app = Idle

parseCsv_Call ==
    /\ csv.pc = "text"
    /\ csv' = [csv EXCEPT !.pc = "done", !.out = parseCsv(csv.text)]
    /\ UNCHANGED <<tidyVars, parse, agg, median, align, mavg, app>>

CsvNext == parseCsv_Call

SpecCsv == CsvInit /\ [][CsvNext]_vars

\* the columns of the header: the first whose name, in lower case, contains
\* "year", and the first whose name contains "value" or "index" (0 when none)
columnNames == LET cols == split(csv.header, ",") IN
               [k \in 1..Len(cols) |-> ToLowerCase(Trim(cols[k]))]
yearColumn ==
    IF \E k \in 1..Len(columnNames) : includes(columnNames[k], YEAR)
    THEN CHOOSE k \in 1..Len(columnNames) :
            includes(columnNames[k], YEAR) /\ \A j \in 1..(k - 1) : ~includes(columnNames[j], YEAR)
    ELSE 0
IsValueName(h) == includes(h, VALUE) \/ includes(h, INDEX)
valueColumn ==
    IF \E k \in 1..Len(columnNames) : IsValueName(columnNames[k])
    THEN CHOOSE k \in 1..Len(columnNames) :
            IsValueName(columnNames[k]) /\ \A j \in 1..(k - 1) : ~IsValueName(columnNames[j])
    ELSE 0
\* the cell of a data line in a column: its text without the surrounding blanks,
\* or "missing"
cellAt(line, col) ==
    LET cells == split(line, ",") IN
    IF col \in 1..Len(cells) THEN Trim(cells[col]) ELSE <<"missing">>
\* the cell is a whole number, possibly signed
IsNumeral(c) ==
    \/ AllDigits(c)
    \/ c # <<>> /\ Head(c) \in {"-", "+"} /\ AllDigits(Tail(c))
numeral(c) ==
    IF AllDigits(c) THEN Num(DigitsValue(c))
    ELSE Num((IF Head(c) = "-" THEN -1 ELSE 1) * DigitsValue(Tail(c)))
\* the rows kept when a cell counts as a number if blankIsZero or it is a numeral
keptRows(blankIsZero) ==
    LET ok(c)  == IsNumeral(c) \/ (blankIsZero /\ c = <<>>)
        val(c) == IF c = <<>> THEN Num(0) ELSE numeral(c)
        good   == SelectSeq(csv.lines, LAMBDA l : ok(cellAt(l, yearColumn)) /\ ok(cellAt(l, valueColumn)))
    IN  IF yearColumn = 0 \/ valueColumn = 0 THEN <<>>
        ELSE [k \in 1..Len(good) |->
                [year |-> val(cellAt(good[k], yearColumn)), value |-> val(cellAt(good[k], valueColumn))]]

\* C15: the result holds, in input order, exactly the data rows whose year cell
\* and value cell are both numbers; a row with a blank or missing year or value
\* cell is dropped; without a "year" column or a "value"/"index" column the
\* result is empty.
C15_RowsKept ==
    csv.pc = "done" => csv.out = keptRows(FALSE)

\* what parseCsv does: as C15, except that a blank cell counts as the number 0
C15_RowsKept_blankIsZero ==
    csv.pc = "done" => csv.out = keptRows(TRUE)

====
